---- MODULE Spec2Model ----
(***************************************************************************)
(* The create_pattern! macro of lightningscanner (src/macros.rs): the      *)
(* const parser parse_pattern, which turns an IDA-style pattern text into  *)
(* a fixed-capacity ParsedPattern, and the expansion that slices, pads and *)
(* wraps it into a Pattern.  Bytes are the integers 0..255, a text is the  *)
(* sequence of its bytes (pattern.as_bytes()), the arrays data and mask    *)
(* are functions on 0..CAPACITY-1.                                         *)
(***************************************************************************)
EXTENDS Integers, Sequences, FiniteSets, TLC

(* ------------------------------ constants ------------------------------ *)

\* [u8; 256], and the bound of the overflow check
CAPACITY == 256
\* const ALIGNMENT: usize = 32
ALIGNMENT == 32
\* b' '
SPACE == 32
\* b'?'
QMARK == 63
\* b'\0', the lookahead past the end of the text
NUL == 0

(* -------------------------------- bounds ------------------------------- *)

\* longest text of the exhaustive family over SmallAlphabet
MaxLen == 4
\* largest byte of the exhaustive two-character family
MaxChar == 127
\* largest number of repetitions in the families of long texts
MaxCount == 257

(* ------------------------------ u8 arithmetic -------------------------- *)

\* u8 << k : bits shifted out of the byte are lost
Shl(x, k) == (x * (2 ^ k)) % 256

RECURSIVE BitOr(_, _)
\* u8 | u8
BitOr(a, b) ==
    IF a = 0 /\ b = 0 THEN 0
    ELSE (IF a % 2 = 1 \/ b % 2 = 1 THEN 1 ELSE 0) + 2 * BitOr(a \div 2, b \div 2)

(* ------------------------------ const_parser --------------------------- *)

\* a faulty char_to_byte, which C7 must tell apart: the upper-case branch
\* forgets + 0xA
char_to_byte_NoOffset(c) ==
    IF c >= 97 /\ c <= 122 THEN c - 97 + 10
    ELSE IF c >= 65 /\ c <= 90 THEN c - 65
    ELSE IF c >= 48 /\ c <= 57 THEN c - 48
    ELSE 0

\* const fn char_to_byte(c: u8) -> u8
char_to_byte(c) ==
    IF c >= 97 /\ c <= 122 THEN c - 97 + 10
    ELSE IF c >= 65 /\ c <= 90 THEN c - 65 + 10
    ELSE IF c >= 48 /\ c <= 57 THEN c - 48
    ELSE 0

\* let mut data = [0u8; 256]; let mut mask = [0u8; 256]; len = 0; i = 0
Locals0 ==
    [data |-> [k \in 0..(CAPACITY - 1) |-> 0],
     mask |-> [k \in 0..(CAPACITY - 1) |-> 0],
     len  |-> 0,
     i    |-> 0]

\* a faulty Overflow, which C1 must tell apart: the check is off by one
Overflow_OffByOne(n) == n > CAPACITY

\* if len >= 256 { panic!(..) }
Overflow(n) == n >= CAPACITY

\* let symbol = pattern[i]   (pattern is 0-based, a sequence is 1-based)
Symbol(p, s) == p[s.i + 1]

\* let next_symbol = if i + 1 < pattern.len() { pattern[i + 1] } else { b'\0' }
NextSymbol(p, s) == IF s.i + 1 < Len(p) THEN p[s.i + 2] ELSE NUL

\* a faulty MatchWildcard, which C6 must tell apart: a second '?' is not
\* consumed
MatchWildcard_NoSkip(s, next_symbol) ==
    [data |-> [s.data EXCEPT ![s.len] = 0],
     mask |-> [s.mask EXCEPT ![s.len] = 0],
     len  |-> s.len + 1,
     i    |-> s.i]

\* b'?' => { data[len] = 0; mask[len] = 0; len += 1; if next_symbol == b'?' { i += 1 } }
\* (s.i is already past the symbol)
MatchWildcard(s, next_symbol) ==
    [data |-> [s.data EXCEPT ![s.len] = 0],
     mask |-> [s.mask EXCEPT ![s.len] = 0],
     len  |-> s.len + 1,
     i    |-> IF next_symbol = QMARK THEN s.i + 1 ELSE s.i]

\* a faulty MatchByte, which C5 must tell apart: the mask of a concrete byte
\* is left 0
MatchByte_NoMask(s, symbol, next_symbol) ==
    [data |-> [s.data EXCEPT ![s.len] =
                   BitOr(Shl(char_to_byte(symbol), 4), char_to_byte(next_symbol))],
     mask |-> s.mask,
     len  |-> s.len + 1,
     i    |-> s.i + 1]

\* _ => { let byte = (char_to_byte(symbol) << 4) | char_to_byte(next_symbol);
\*        data[len] = byte; mask[len] = 0xff; len += 1; i += 1; }
MatchByte(s, symbol, next_symbol) ==
    [data |-> [s.data EXCEPT ![s.len] =
                   BitOr(Shl(char_to_byte(symbol), 4), char_to_byte(next_symbol))],
     mask |-> [s.mask EXCEPT ![s.len] = 255],
     len  |-> s.len + 1,
     i    |-> s.i + 1]

\* a faulty IsSpace, which C10 must tell apart: the b' ' arm is missing and
\* a space falls through to the byte arm
IsSpace_NoArm(symbol) == FALSE

\* b' ' => continue
IsSpace(symbol) == symbol = SPACE

\* one iteration of the while loop, after the overflow check
LoopBody(p, s) ==
    LET symbol      == Symbol(p, s)
        next_symbol == NextSymbol(p, s)
        s1          == [s EXCEPT !.i = s.i + 1]
    IN  IF IsSpace(symbol) THEN s1
        ELSE IF symbol = QMARK THEN MatchWildcard(s1, next_symbol)
        ELSE MatchByte(s1, symbol, next_symbol)

\* ParsedPattern { data, mask, len }
ParsedPattern(s) == [ok |-> TRUE, data |-> s.data, mask |-> s.mask, len |-> s.len]

\* the panic: constant evaluation fails and no value exists
NoValue == [ok |-> FALSE]

RECURSIVE LoopBlock(_, _, _)
\* at most n iterations of the while loop, stopping before a panic
LoopBlock(p, s, n) ==
    IF n = 0 \/ ~(s.i < Len(p)) \/ Overflow(s.len) THEN s
    ELSE LoopBlock(p, LoopBody(p, s), n - 1)

RECURSIVE Loop(_, _)
\* while i < pattern.len() { .. }, evaluated block by block
Loop(p, s) ==
    IF ~(s.i < Len(p)) THEN ParsedPattern(s)
    ELSE IF Overflow(s.len) THEN NoValue
    ELSE Loop(p, LoopBlock(p, s, 32))

\* pub const fn parse_pattern(pattern: &str) -> ParsedPattern, as a function
parse_pattern(p) == Loop(p, Locals0)

(* ------------------------------ the expansion -------------------------- *)

\* vec.resize(n, v), for n >= vec.len()
Resize(vec, n, v) == [k \in 1..n |-> IF k <= Len(vec) THEN vec[k] ELSE v]

\* a faulty Slice, which C3 must tell apart: one element too few
Slice_Short(arr, n) == [k \in 1..(IF n > 0 THEN n - 1 ELSE 0) |-> arr[k - 1]]

\* arr[..n].to_vec()
Slice(arr, n) == [k \in 1..n |-> arr[k - 1]]

\* a faulty PaddingSize, which C4 must tell apart: the - 1 of the rounding
\* is forgotten
PaddingSize_NoMinusOne(unpadded_size) ==
    LET count == (unpadded_size + ALIGNMENT) \div ALIGNMENT
    IN  count * ALIGNMENT - unpadded_size

\* let count = (unpadded_size + ALIGNMENT - 1) / ALIGNMENT;
\* let padding_size = count * ALIGNMENT - unpadded_size;
PaddingSize(unpadded_size) ==
    LET count == (unpadded_size + ALIGNMENT - 1) \div ALIGNMENT
    IN  count * ALIGNMENT - unpadded_size

\* AlignedBytes::new(&vec): an owned copy of the bytes
AlignedBytesNew(vec) == vec

\* Pattern::from_parts(data, mask, unpadded_size)
FromParts(d, m, n) == [ok |-> TRUE, data |-> d, mask |-> m, unpadded_size |-> n]

\* the run-time part of the expansion, from PARSED
CreatePattern(parsed) ==
    LET unpadded_size == parsed.len
        data_vec      == Slice(parsed.data, unpadded_size)
        mask_vec      == Slice(parsed.mask, unpadded_size)
        padding_size  == PaddingSize(unpadded_size)
    IN  FromParts(AlignedBytesNew(Resize(data_vec, unpadded_size + padding_size, 0)),
                  AlignedBytesNew(Resize(mask_vec, unpadded_size + padding_size, 0)),
                  unpadded_size)

(* --------------------- the run-time path, Pattern::new ----------------- *)

\* the parser of the run-time path on growable sequences: a byte is refused
\* only when emitting it would make the length exceed the capacity
RuntimeBody(p, s) ==
    LET symbol      == p[s.i + 1]
        next_symbol == IF s.i + 1 < Len(p) THEN p[s.i + 2] ELSE NUL
    IN  IF symbol = SPACE THEN [s EXCEPT !.i = s.i + 1]
        ELSE IF Len(s.data) + 1 > CAPACITY THEN [s EXCEPT !.ok = FALSE]
        ELSE IF symbol = QMARK
        THEN [ok   |-> TRUE,
              data |-> Append(s.data, 0),
              mask |-> Append(s.mask, 0),
              i    |-> IF next_symbol = QMARK THEN s.i + 2 ELSE s.i + 1]
        ELSE [ok   |-> TRUE,
              data |-> Append(s.data,
                          BitOr(Shl(char_to_byte(symbol), 4), char_to_byte(next_symbol))),
              mask |-> Append(s.mask, 255),
              i    |-> s.i + 2]

RECURSIVE RuntimeBlock(_, _, _)
RuntimeBlock(p, s, n) ==
    IF n = 0 \/ ~s.ok \/ ~(s.i < Len(p)) THEN s
    ELSE RuntimeBlock(p, RuntimeBody(p, s), n - 1)

RECURSIVE RuntimeLoop(_, _)
RuntimeLoop(p, s) ==
    IF ~s.ok \/ ~(s.i < Len(p)) THEN s
    ELSE RuntimeLoop(p, RuntimeBlock(p, s, 32))

\* parse and build directly
PatternNew(p) ==
    LET s == RuntimeLoop(p, [ok |-> TRUE, data |-> <<>>, mask |-> <<>>, i |-> 0])
        n == Len(s.data)
    IN  IF ~s.ok THEN NoValue
        ELSE FromParts(AlignedBytesNew(Resize(s.data, n + PaddingSize(n), 0)),
                       AlignedBytesNew(Resize(s.mask, n + PaddingSize(n), 0)),
                       n)

(* ------------------------------ the inputs ----------------------------- *)

\* space, '?', 'a', '5'
SmallAlphabet == {SPACE, QMARK, 97, 53}

\* every text over SmallAlphabet of at most MaxLen characters
ShortTexts == UNION {[1..n -> SmallAlphabet] : n \in 0..MaxLen}

\* every text of two characters
PairTexts == [1..2 -> 0..MaxChar]

\* the unit repeated n times
Rep(unit, n) == [k \in 1..(n * Len(unit)) |-> unit[((k - 1) % Len(unit)) + 1]]

\* "??" repeated: every length from 0 to beyond the capacity
WildTexts == {Rep(<<QMARK, QMARK>>, n) : n \in 0..MaxCount}

\* around the capacity: tokens with and without spaces, and a tail
NearTexts ==
    {Rep(unit, n) \o tail :
        unit \in {<<QMARK, QMARK, SPACE>>, <<97, 48>>, <<97, SPACE>>, <<QMARK>>},
        n \in (CAPACITY - 1)..MaxCount,
        tail \in {<<>>, <<SPACE>>, <<QMARK>>, <<53>>}}

\* the text of the macro's documentation: "a0 9e 87 00 ?? 5c"
DocText == <<97, 48, 32, 57, 101, 32, 56, 55, 32, 48, 48, 32, 63, 63, 32, 53, 99>>

Texts == ShortTexts \cup PairTexts \cup WildTexts \cup NearTexts \cup {DocText}

(* ------------------------------ the machine ---------------------------- *)

VARIABLES
    pattern,    \* the text handed to create_pattern!
    pc,         \* "loop", "panic", "parsed", "created"
    locals,     \* data, mask, len, i of parse_pattern
    PARSED,     \* const PARSED, once it is evaluated
    created,    \* the Pattern the expansion returns
    runtime     \* the Pattern of the run-time path for the same text

vars == <<pattern, pc, locals, PARSED, created, runtime>>

Pending == [ok |-> FALSE, pending |-> TRUE]

Init ==
    /\ pattern \in Texts
    /\ pc = "loop"
    /\ locals = Locals0
    /\ PARSED = NoValue
    /\ created = NoValue
    /\ runtime = Pending

\* one iteration of the while loop that passes the overflow check
Iterate ==
    /\ pc = "loop"
    /\ locals.i < Len(pattern)
    /\ ~Overflow(locals.len)
    /\ locals' = LoopBody(pattern, locals)
    /\ UNCHANGED <<pattern, pc, PARSED, created, runtime>>

\* the overflow check fails: panic!, nothing is returned
Panic ==
    /\ pc = "loop"
    /\ locals.i < Len(pattern)
    /\ Overflow(locals.len)
    /\ pc' = "panic"
    /\ UNCHANGED <<pattern, locals, PARSED, created, runtime>>

\* the loop ends: PARSED = ParsedPattern { data, mask, len }
Return ==
    /\ pc = "loop"
    /\ ~(locals.i < Len(pattern))
    /\ PARSED' = ParsedPattern(locals)
    /\ pc' = "parsed"
    /\ UNCHANGED <<pattern, locals, created, runtime>>

\* the rest of the expansion
Create ==
    /\ pc = "parsed"
    /\ created' = CreatePattern(PARSED)
    /\ pc' = "created"
    /\ UNCHANGED <<pattern, locals, PARSED, runtime>>

\* the same text through the run-time path
New ==
    /\ pc \in {"panic", "created"}
    /\ runtime = Pending
    /\ runtime' = PatternNew(pattern)
    /\ UNCHANGED <<pattern, pc, locals, PARSED, created>>

Next == Iterate \/ Panic \/ Return \/ Create \/ New

Spec == Init /\ [][Next]_vars

(* --------------------- vocabulary of the properties -------------------- *)
(* The grammar of the pattern text as the documentation gives it, read     *)
(* without any capacity: tokens separated by spaces, a token being a       *)
(* wildcard ("?" or "??") or a pair of characters (the second one absent   *)
(* when the text ends).  A token is recorded with its kind and the place   *)
(* of its first character.                                                 *)

TokenStep(p, t) ==
    LET c == p[t.at]
    IN  IF c = SPACE THEN [t EXCEPT !.at = t.at + 1]
        ELSE IF c = QMARK
        THEN [toks |-> Append(t.toks, [kind |-> "wild", at |-> t.at]),
              at   |-> IF t.at < Len(p) /\ p[t.at + 1] = QMARK THEN t.at + 2 ELSE t.at + 1]
        ELSE [toks |-> Append(t.toks, [kind |-> "hex", at |-> t.at]),
              at   |-> t.at + 2]

RECURSIVE TokenBlock(_, _, _)
TokenBlock(p, t, n) ==
    IF n = 0 \/ t.at > Len(p) THEN t ELSE TokenBlock(p, TokenStep(p, t), n - 1)

RECURSIVE TokenLoop(_, _)
TokenLoop(p, t) ==
    IF t.at > Len(p) THEN t.toks ELSE TokenLoop(p, TokenBlock(p, t, 32))

\* the tokens of a text, in order
Tokens(p) == TokenLoop(p, [toks |-> <<>>, at |-> 1])

\* the number of output bytes a text requires
Required(p) == Len(Tokens(p))

\* the characters of the token that starts at place at (NUL past the end)
First(p, at)  == p[at]
Second(p, at) == IF at < Len(p) THEN p[at + 1] ELSE NUL

\* 0-9, a-f, A-F
IsHexDigit(c) == (c >= 48 /\ c <= 57) \/ (c >= 97 /\ c <= 102) \/ (c >= 65 /\ c <= 70)

\* the value of a hex digit, by table
HexVal(c) ==
    CASE c >= 48 /\ c <= 57 -> c - 48
      [] c \in {97, 65}  -> 10
      [] c \in {98, 66}  -> 11
      [] c \in {99, 67}  -> 12
      [] c \in {100, 68} -> 13
      [] c \in {101, 69} -> 14
      [] c \in {102, 70} -> 15

\* the nibble a character stands for: its hex value, 0 for any other character
NibbleVal(c) == IF IsHexDigit(c) THEN HexVal(c) ELSE 0

\* a letter in its other case, any other character unchanged
SwapCase(c) ==
    IF c >= 97 /\ c <= 122 THEN c - 32
    ELSE IF c >= 65 /\ c <= 90 THEN c + 32
    ELSE c

\* the macro path has aborted
Aborted == pc = "panic"

\* parse_pattern has just returned: PARSED holds its result
Returned == pc = "parsed" /\ PARSED.ok

(* -------------------------------- C1 ----------------------------------- *)

\* C1: parse_pattern either aborts or returns a ParsedPattern with
\* len <= 256; the length never passes 256 while parsing (every write is at
\* an index below 256); a text that requires 257 or more output bytes never
\* yields a ParsedPattern or a Pattern; and once aborted neither exists.
C1_Bounded ==
    /\ locals.len <= CAPACITY
    /\ DOMAIN locals.data = 0..(CAPACITY - 1)
    /\ DOMAIN locals.mask = 0..(CAPACITY - 1)
    /\ PARSED.ok => PARSED.len <= CAPACITY /\ pc \in {"parsed", "created"}
    /\ Returned => Required(pattern) <= CAPACITY
    /\ created.ok => PARSED.ok /\ pc = "created"
    /\ Aborted => ~PARSED.ok /\ ~created.ok
    /\ (pc = "loop" /\ ~(locals.i < Len(pattern))) => Required(pattern) <= CAPACITY

\* a text of 257 tokens has aborted with nothing produced
C1_Witness ==
    /\ Aborted
    /\ Required(pattern) = CAPACITY + 1
    /\ locals.len = CAPACITY
    /\ ~PARSED.ok /\ ~created.ok

(* -------------------------------- C3 ----------------------------------- *)

\* C3: the built Pattern's data buffer is the first len parsed data bytes
\* followed only by 0x00, its mask buffer the first len parsed mask bytes
\* followed only by 0x00, and its unpadded length is the parsed len; the
\* documentation's text gives A0 9E 87 00 00 5C and FF FF FF FF 00 FF, each
\* with 26 zeros after it, and the empty text gives two empty buffers.
C3_Built ==
    created.ok =>
        /\ created.unpadded_size = PARSED.len
        /\ Len(created.data) >= PARSED.len
        /\ Len(created.mask) >= PARSED.len
        /\ \A k \in 1..Len(created.data) :
               created.data[k] = IF k <= PARSED.len THEN PARSED.data[k - 1] ELSE 0
        /\ \A k \in 1..Len(created.mask) :
               created.mask[k] = IF k <= PARSED.len THEN PARSED.mask[k - 1] ELSE 0
        /\ pattern = DocText =>
               /\ created.unpadded_size = 6
               /\ created.data = <<160, 158, 135, 0, 0, 92>> \o [k \in 1..26 |-> 0]
               /\ created.mask = <<255, 255, 255, 255, 0, 255>> \o [k \in 1..26 |-> 0]
        /\ pattern = <<>> =>
               /\ created.unpadded_size = 0
               /\ created.data = <<>>
               /\ created.mask = <<>>

\* the documentation's text has been built
C3_Witness ==
    /\ created.ok
    /\ pattern = DocText
    /\ Len(created.data) = 32
    /\ created.data[6] = 92

(* -------------------------------- C4 ----------------------------------- *)

\* the multiples of the alignment
Multiples == {ALIGNMENT * q : q \in 0..(CAPACITY + ALIGNMENT)}

\* C4: for every unpadded length n in 0..256 both buffers are resized to
\* the least multiple of 32 that is >= n: a multiple of 32, >= n, less than
\* n + 32, the same for data and mask (0 -> 0, 1 -> 32, 32 -> 32, 33 -> 64).
C4_PaddedLen ==
    created.ok =>
        LET n == created.unpadded_size
            L == Len(created.data)
        IN  /\ n \in 0..CAPACITY
            /\ L % ALIGNMENT = 0
            /\ L >= n
            /\ L - n < ALIGNMENT
            /\ Len(created.mask) = L
            /\ L \in Multiples
            /\ \A m \in Multiples : m >= n => L <= m
            /\ (n = 0 => L = 0)
            /\ (n = 1 => L = 32)
            /\ (n = 32 => L = 32)
            /\ (n = 33 => L = 64)

\* a Pattern of 32 bytes has been built, with no padding
C4_Witness ==
    /\ created.ok
    /\ created.unpadded_size = 32
    /\ Len(created.data) = 32

(* -------------------------------- C5 ----------------------------------- *)

\* C5: in a built Pattern mask[i] = 0xFF exactly at the positions emitted
\* from a concrete hex token, and 0x00 exactly at the positions emitted from
\* a wildcard token and at the padding positions; no other value occurs.
C5_Mask ==
    created.ok =>
        LET toks == Tokens(pattern)
        IN  \A k \in 1..Len(created.mask) :
                /\ created.mask[k] \in {0, 255}
                /\ created.mask[k] = 255 <=> (k <= Len(toks) /\ toks[k].kind = "hex")
                /\ created.mask[k] = 0 <=>
                       \/ (k <= Len(toks) /\ toks[k].kind = "wild")
                       \/ k > created.unpadded_size

\* a Pattern with a concrete byte, a wildcard and padding
C5_Witness ==
    /\ created.ok
    /\ created.unpadded_size = 2
    /\ created.mask[1] = 255
    /\ created.mask[2] = 0
    /\ Len(created.mask) = 32

(* -------------------------------- C6 ----------------------------------- *)

\* the number of '?' directly before place j
RunBefore(p, j) ==
    LET stops == {m \in 1..(j - 1) : p[m] # QMARK}
        last  == IF stops = {} THEN 0 ELSE CHOOSE m \in stops : \A x \in stops : x <= m
    IN  j - 1 - last

\* the sum of ceil(k / 2) over the maximal runs of k '?' of a text
WildBytes(p) ==
    Cardinality({j \in 1..Len(p) : p[j] = QMARK /\ RunBefore(p, j) % 2 = 0})

\* C6: in a text of '?' and spaces, where every run of '?' begins at a
\* token, a run of k '?' emits ceil(k / 2) bytes, each with data 0x00 and
\* mask 0x00: "?" and "??" give len 1, "????" gives len 2.
C6_Wildcards ==
    (Returned /\ \A j \in 1..Len(pattern) : pattern[j] \in {QMARK, SPACE}) =>
        /\ PARSED.len = WildBytes(pattern)
        /\ \A k \in 0..(PARSED.len - 1) : PARSED.data[k] = 0 /\ PARSED.mask[k] = 0
        /\ pattern = <<QMARK>> => PARSED.len = 1
        /\ pattern = <<QMARK, QMARK>> => PARSED.len = 1
        /\ pattern = <<QMARK, QMARK, QMARK>> => PARSED.len = 2
        /\ pattern = <<QMARK, QMARK, QMARK, QMARK>> => PARSED.len = 2

\* "????" has been parsed into two bytes
C6_Witness ==
    /\ Returned
    /\ pattern = <<QMARK, QMARK, QMARK, QMARK>>
    /\ PARSED.len = 2

(* -------------------------------- C7 ----------------------------------- *)

\* a text with every letter in its other case
SwapText(p) == [k \in 1..Len(p) |-> SwapCase(p[k])]

\* C7: a hex byte pair c1 c2 of two hex digits emits the data byte
\* 16 * hexval(c1) + hexval(c2) with mask 0xFF, and the text with its
\* letters in the other case parses to the same bytes.
C7_HexPair ==
    Returned =>
        LET toks  == Tokens(pattern)
            other == parse_pattern(SwapText(pattern))
        IN  /\ \A k \in 1..Len(toks) :
                   LET c1 == First(pattern, toks[k].at)
                       c2 == Second(pattern, toks[k].at)
                   IN  (toks[k].kind = "hex" /\ IsHexDigit(c1) /\ IsHexDigit(c2)) =>
                           /\ PARSED.data[k - 1] = 16 * HexVal(c1) + HexVal(c2)
                           /\ PARSED.mask[k - 1] = 255
            /\ (\A j \in 1..Len(pattern) : IsHexDigit(pattern[j]) \/ pattern[j] \in {SPACE, QMARK}) =>
                   /\ other.ok
                   /\ other.len = PARSED.len
                   /\ \A k \in 0..(PARSED.len - 1) :
                          other.data[k] = PARSED.data[k] /\ other.mask[k] = PARSED.mask[k]

\* "AF" has been parsed into 0xAF
C7_Witness ==
    /\ Returned
    /\ pattern = <<65, 70>>
    /\ PARSED.len = 1
    /\ PARSED.data[0] = 175
    /\ PARSED.mask[0] = 255

(* -------------------------------- C9 ----------------------------------- *)

\* C9: in a hex byte pair c1 c2 the high nibble of the emitted byte is the
\* value of c1 and the low nibble the value of c2, a character that is not a
\* hex digit counting as 0 in its own nibble.
C9_Nibbles ==
    Returned =>
        LET toks == Tokens(pattern)
        IN  \A k \in 1..Len(toks) :
                toks[k].kind = "hex" =>
                    /\ PARSED.data[k - 1] \div 16 = NibbleVal(First(pattern, toks[k].at))
                    /\ PARSED.data[k - 1] % 16 = NibbleVal(Second(pattern, toks[k].at))

(* -------------------------------- C8 ----------------------------------- *)

\* C8: the capacity abort happens only for a text that requires more than
\* 256 output bytes.
C8_AbortOnlyOver ==
    Aborted => Required(pattern) > CAPACITY

(* -------------------------------- C2 ----------------------------------- *)

\* C2: for every text the macro path and the run-time path end alike: the
\* same data buffer, the same mask buffer and the same unpadded length, or
\* no Pattern on either path.
C2_SamePattern ==
    runtime # Pending =>
        \/ (Aborted /\ ~runtime.ok)
        \/ (pc = "created" /\ runtime.ok /\ created.ok
              /\ runtime.data = created.data
              /\ runtime.mask = created.mask
              /\ runtime.unpadded_size = created.unpadded_size)

(* -------------------------------- C10 ---------------------------------- *)

\* C10: a space adds no byte and changes none: whenever the text is
\* s1, a space, s2, and s1 and s2 parse without aborting, its parse has
\* len = len(s1) + len(s2), with the data and mask of s1 followed by those
\* of s2.
C10_Space ==
    Returned =>
        \A j \in 1..Len(pattern) :
            pattern[j] = SPACE =>
                LET r1 == parse_pattern(SubSeq(pattern, 1, j - 1))
                    r2 == parse_pattern(SubSeq(pattern, j + 1, Len(pattern)))
                IN  (r1.ok /\ r2.ok) =>
                        /\ PARSED.len = r1.len + r2.len
                        /\ \A k \in 0..(PARSED.len - 1) :
                               /\ PARSED.data[k] =
                                      IF k < r1.len THEN r1.data[k] ELSE r2.data[k - r1.len]
                               /\ PARSED.mask[k] =
                                      IF k < r1.len THEN r1.mask[k] ELSE r2.mask[k - r1.len]

\* "a 5" has been parsed: the lone 'a' takes the space as its lookahead
C10_Witness ==
    /\ Returned
    /\ pattern = <<97, SPACE, 53>>
    /\ PARSED.len = 2
    /\ PARSED.data[0] = 160
    /\ PARSED.data[1] = 80

====
